---- MODULE Spec2Model ----
(***************************************************************************)
(* Model of the monitoring engine of acc-backend: the collection scheduler *)
(* (MonitoringService.startMonitoring / stopMonitoring and the setInterval *)
(* callback), the collection cycle (collectMetrics, generateVMMetrics,     *)
(* saveVMMetrics, checkForAlerts, createAlert, collectSystemMetrics), the  *)
(* alert resolution (resolveAlert) and the VM lifecycle requests that      *)
(* change the statuses the cycle reads.                                    *)
(*                                                                         *)
(* Units.  Percentages are integers in thousandths of a percent (90% is    *)
(* 90000); the error rate is an integer in units of 1e-5 (0.02 is 2000);   *)
(* Math.random() is an integer r in 0..999 standing for r/1000; time is in *)
(* milliseconds.                                                           *)
(***************************************************************************)
EXTENDS Integers, Sequences, FiniteSets, TLC

VARIABLES
    vms,             \* VM collection: id -> status, "none" when no document
    vmTimers,        \* pending setTimeout callbacks of the VM lifecycle
    deletes,         \* DELETE /api/vms/:id handlers in flight
    nVmOps,          \* number of accepted VM lifecycle requests
    now,             \* Date.now()
    isRunning,       \* MonitoringService.isRunning
    metricsInterval, \* MonitoringService.metricsInterval (0 is null)
    timers,          \* live setInterval handles: records [id, due]
    warned,          \* 'Monitoring already running' has been logged
    cycles,          \* collectMetrics invocations in flight, oldest first
    metrics,         \* VMMetrics collection
    alerts,          \* SystemAlert collection (the _id is the index)
    perf,            \* PerformanceMetrics collection
    nResolves,       \* number of resolveAlert calls made
    nFailures,       \* number of database calls that have failed
    reply,           \* outcome of the last request served
    emitted,         \* number of 'alert:resolved' events emitted on io
    process          \* "up", "disconnected" (mongoose closed) or "exited"

vars == <<vms, vmTimers, deletes, nVmOps, now, isRunning, metricsInterval, timers,
          warned, cycles, metrics, alerts, perf, nResolves, nFailures,
          reply, emitted, process>>

vmVars    == <<vms, vmTimers, deletes, nVmOps>>
schedVars == <<isRunning, metricsInterval, timers, warned>>
dbVars    == <<metrics, alerts, perf>>
apiVars   == <<reply, emitted>>

----------------------------------------------------------------------------
(* Bounds of the model *)

MaxVMs      == 2    \* VM identifiers 1..MaxVMs
MaxVmOps    == 2    \* accepted create, start and stop requests
MaxTimers   == 2    \* setInterval handles alive at once
MaxTicks    == 2    \* clock ticks
MaxResolves == 2    \* resolveAlert calls
MaxFailures == 1    \* database calls that fail
MaxPerf     == 3    \* PerformanceMetrics documents a getSystemOverview adds to

VmIds == 1..MaxVMs

(* Program constants *)

PeriodMs == 30000                 \* setInterval period
WindowMs == 5 * 60 * 1000         \* createAlert recency window
TickMs   == 5 * PeriodMs          \* granularity of the model's clock
HourMs   == 60 * 60 * 1000        \* timeRanges['1h']

Pct(p) == p * 1000                \* a percentage in the model's unit

CpuCriticalPct  == 90
CpuWarningPct   == 75
MemCriticalPct  == 95
MemWarningPct   == 85
DiskCriticalPct == 95
ErrorRateLimit  == 2000           \* 0.02 in units of 1e-5
MetricMinPct    == 0              \* vmMetricsSchema min
MetricMaxPct    == 100            \* vmMetricsSchema max

\* The enum of the status field of vmSchema and vmMetricsSchema
Statuses == {"creating", "starting", "running", "stopping", "stopped",
             "suspended", "error"}

Min(a, b) == IF a < b THEN a ELSE b

\* No request has been served yet
NoReply == [op |-> "none", status |-> "none"]

\* The outcome of one database call.  On an open connection it fails only
\* while the model's budget of failures lasts; once mongoose is disconnected
\* (bufferCommands is false) every call fails.
DbCall(ok) ==
    /\ process # "up" => ~ok
    /\ (process = "up" /\ ~ok) => nFailures < MaxFailures
    /\ nFailures' = IF ok \/ process # "up" THEN nFailures ELSE nFailures + 1

----------------------------------------------------------------------------
(* Sample Generator: generateVMMetrics *)

\* One draw of the five Math.random() calls that feed the utilization fields
\* and of new Date().getHours().
Draw(base, cpuJ, memJ, disk, err, hour) ==
    [base |-> base, cpuJ |-> cpuJ, memJ |-> memJ, disk |-> disk, err |-> err,
     hour |-> hour]

isBusinessHours(hour) == hour >= 9 /\ hour <= 17

\* loadMultiplier times ten
loadMultiplier10(hour) == IF isBusinessHours(hour) THEN 15 ELSE 8

generateVMMetrics(vm, d) ==
    LET baseLoad == d.base * 50                      \* Math.random() * 50
        mult     == loadMultiplier10(d.hour)
    IN  [cpuUsage    |-> Min(Pct(100), (baseLoad * mult) \div 10
                                        + (d.cpuJ * 20 - 10000)),
         memoryUsage |-> Min(Pct(100), (((baseLoad * 8) \div 10) * mult) \div 10
                                        + (d.memJ * 15 - 7500)),
         diskUsage   |-> Min(Pct(100), 30000 + d.disk * 40),
         errorRate   |-> d.err * 5,
         status      |-> vm.status]

\* The draws the collection cycle is exercised with: the lowest draw at
\* night (a negative CPU and memory reading, no alert) and the highest draw
\* of the utilization fields in business hours (a cpu_high warning).
CycleDraws ==
    {Draw(0, 0, 0, 0, 0, 3), Draw(999, 999, 999, 999, 0, 12)}

\* Draws for the Deduplicator: the lowest draw, and the highest draw of
\* every field in business hours, which gives two candidate alerts (a
\* cpu_high warning and an error_rate_high warning)
AlertDraws ==
    {Draw(0, 0, 0, 0, 0, 3), Draw(999, 999, 999, 999, 999, 12)}

\* A draw in the middle of every field at night: a reading the schema
\* accepts and that is below every threshold
QuietDraws ==
    {Draw(500, 500, 500, 500, 0, 3)}

\* The local variable metrics of collectMetrics before a reading is taken
NoReading ==
    [cpuUsage |-> 0, memoryUsage |-> 0, diskUsage |-> 0, errorRate |-> 0,
     status |-> "none"]

----------------------------------------------------------------------------
(* Threshold Evaluator: checkForAlerts, up to the "Save alerts" loop *)

AlertEvent(type, severity, value) ==
    [type |-> type, severity |-> severity, value |-> value]

\* A CPU rule whose bands include their lower bound
cpuRule_Inclusive(m) ==
    IF m.cpuUsage >= Pct(CpuCriticalPct)
    THEN <<AlertEvent("cpu_high", "critical", m.cpuUsage)>>
    ELSE IF m.cpuUsage >= Pct(CpuWarningPct)
         THEN <<AlertEvent("cpu_high", "warning", m.cpuUsage)>>
         ELSE <<>>

cpuRule(m) ==
    IF m.cpuUsage > Pct(CpuCriticalPct)
    THEN <<AlertEvent("cpu_high", "critical", m.cpuUsage)>>
    ELSE IF m.cpuUsage > Pct(CpuWarningPct)
         THEN <<AlertEvent("cpu_high", "warning", m.cpuUsage)>>
         ELSE <<>>

\* A memory rule whose bands are tested one after the other, not as
\* alternatives
memoryRule_Cumulative(m) ==
    (IF m.memoryUsage > Pct(MemCriticalPct)
     THEN <<AlertEvent("memory_high", "critical", m.memoryUsage)>> ELSE <<>>)
    \o (IF m.memoryUsage > Pct(MemWarningPct)
        THEN <<AlertEvent("memory_high", "warning", m.memoryUsage)>> ELSE <<>>)

memoryRule(m) ==
    IF m.memoryUsage > Pct(MemCriticalPct)
    THEN <<AlertEvent("memory_high", "critical", m.memoryUsage)>>
    ELSE IF m.memoryUsage > Pct(MemWarningPct)
         THEN <<AlertEvent("memory_high", "warning", m.memoryUsage)>>
         ELSE <<>>

diskRule(m) ==
    IF m.diskUsage > Pct(DiskCriticalPct)
    THEN <<AlertEvent("disk_full", "critical", m.diskUsage)>>
    ELSE <<>>

errorRateRule(m) ==
    IF m.errorRate > ErrorRateLimit
    THEN <<AlertEvent("error_rate_high", "warning", m.errorRate)>>
    ELSE <<>>

\* The array alerts that checkForAlerts builds
checkForAlerts(m) ==
    cpuRule(m) \o memoryRule(m) \o diskRule(m) \o errorRateRule(m)

----------------------------------------------------------------------------
(* Persistence of a MetricPoint: saveVMMetrics and the vmMetricsSchema *)

InRange(x) == x >= Pct(MetricMinPct) /\ x <= Pct(MetricMaxPct)

\* mongoose validation of the document saveVMMetrics builds
ValidMetrics(m) ==
    /\ InRange(m.cpuUsage)
    /\ InRange(m.memoryUsage)
    /\ InRange(m.diskUsage)
    /\ m.status \in Statuses

MetricPoint(vmId, m) ==
    [vmId |-> vmId, timestamp |-> now, cpuUsage |-> m.cpuUsage,
     status |-> m.status]

\* A saveVMMetrics that lets the failure of the save through
saveVMMetricsFailure_Thrown == "thrown"

\* What saveVMMetrics does with a failed save: its catch logs a warning and
\* the method returns normally.
saveVMMetricsFailure == "caught"

----------------------------------------------------------------------------
(* Alert Deduplicator / Store: createAlert and resolveAlert *)

\* A lookup by the stored title, with no recency window
MatchesLookup_TitleNoWindow(a, vmId, type) ==
    /\ a.vmId = vmId
    /\ a.title = type
    /\ a.resolved = FALSE

\* The filter of SystemAlert.findOne in createAlert
MatchesLookup(a, vmId, type) ==
    /\ a.vmId = vmId
    /\ a.type = type
    /\ a.resolved = FALSE
    /\ a.createdAt >= now - WindowMs

\* SystemAlert.findOne: the first matching document, 0 for null
findOneAlert(vmId, type) ==
    LET hits == {k \in 1..Len(alerts) : MatchesLookup(alerts[k], vmId, type)}
    IN  IF hits = {} THEN 0 ELSE CHOOSE k \in hits : \A j \in hits : k <= j

\* The document createAlert builds in its create branch.  It sets level and
\* title (and metadata); the schema paths type, severity and currentValue
\* are not set; count, resolved and lastSeen take their schema defaults.
NewAlert(vmId, ev) ==
    [vmId |-> vmId, type |-> "unset", severity |-> "unset",
     level |-> ev.severity, title |-> ev.type,
     currentValue |-> 0, count |-> 1, resolved |-> FALSE,
     createdAt |-> now, lastSeen |-> now, resolvedAt |-> 0]

\* The update branch of createAlert: existingAlert.save() writes the three
\* modified paths.
UpdatedAlert(a, ev) ==
    [a EXCEPT !.count = a.count + 1, !.lastSeen = now, !.currentValue = ev.value]

\* A resolve that flips the flag
ResolvedAlert_Toggle(a) ==
    [a EXCEPT !.resolved = ~a.resolved, !.resolvedAt = now]

\* The update of SystemAlert.findByIdAndUpdate in resolveAlert
ResolvedAlert(a) ==
    [a EXCEPT !.resolved = TRUE, !.resolvedAt = now]

----------------------------------------------------------------------------
(* Collection Scheduler: startMonitoring, stopMonitoring, setInterval *)

\* startMonitoring without its guard
AlreadyRunning_NoGuard == FALSE

\* The guard of startMonitoring
AlreadyRunning == isRunning

\* A clearInterval that cancels nothing
clearInterval_Keep(ts, handle) == ts

\* clearInterval(handle)
clearInterval(ts, handle) == {t \in ts : t.id # handle}

\* A stop that keeps the handle of the timer it cleared
NullHandle_Stale == metricsInterval

\* this.metricsInterval = null in stopMonitoring (0 stands for null)
NullHandle == 0

\* setInterval returns a handle no live timer has
FreshHandle == CHOOSE h \in 1..MaxTimers : \A t \in timers : t.id # h

StartMonitoring ==
    /\ Cardinality(timers) < MaxTimers
    /\ IF AlreadyRunning
       THEN /\ warned' = TRUE
            /\ UNCHANGED <<isRunning, metricsInterval, timers>>
       ELSE /\ isRunning' = TRUE
            /\ metricsInterval' = FreshHandle
            /\ timers' = timers \cup {[id |-> FreshHandle, due |-> now + PeriodMs]}
            /\ UNCHANGED warned
    /\ UNCHANGED <<process, apiVars, vmVars, now, cycles, dbVars, nResolves, nFailures>>

StopMonitoring ==
    /\ IF ~isRunning
       THEN UNCHANGED <<isRunning, metricsInterval, timers>>
       ELSE /\ isRunning' = FALSE
            /\ IF metricsInterval # 0
               THEN /\ timers' = clearInterval(timers, metricsInterval)
                    /\ metricsInterval' = NullHandle
               ELSE UNCHANGED <<timers, metricsInterval>>
    /\ UNCHANGED <<process, apiVars, vmVars, now, warned, cycles, dbVars, nResolves, nFailures>>

\* The SIGTERM / SIGINT handler, from the callback of server.close on:
\* stopMonitoring, which returns without waiting for an invocation of
\* collectMetrics in flight, then dbConnection.disconnect()
Shutdown ==
    /\ process = "up"
    /\ process' = "disconnected"
    /\ IF ~isRunning
       THEN UNCHANGED <<isRunning, metricsInterval, timers>>
       ELSE /\ isRunning' = FALSE
            /\ IF metricsInterval # 0
               THEN /\ timers' = clearInterval(timers, metricsInterval)
                    /\ metricsInterval' = NullHandle
               ELSE UNCHANGED <<timers, metricsInterval>>
    /\ UNCHANGED <<apiVars, vmVars, now, warned, cycles, dbVars, nResolves,
                   nFailures>>

\* process.exit(0) once the disconnect has settled: every invocation in
\* flight and every pending timeout ends with the process
ProcessExit ==
    /\ process = "disconnected"
    /\ process' = "exited"
    /\ cycles' = <<>>
    /\ vmTimers' = {}
    /\ deletes' = {}
    /\ UNCHANGED <<apiVars, vms, nVmOps, now, schedVars, dbVars, nResolves,
                   nFailures>>

Tick ==
    /\ now < MaxTicks * TickMs
    /\ now' = now + TickMs
    /\ UNCHANGED <<process, apiVars, vmVars, schedVars, cycles, dbVars, nResolves, nFailures>>

\* An hour passes
TickHour ==
    /\ now < MaxTicks * HourMs
    /\ now' = now + HourMs
    /\ UNCHANGED <<process, apiVars, vmVars, schedVars, cycles, dbVars, nResolves,
                   nFailures>>

\* A quiet stretch longer than the recency window of createAlert
TickWindow ==
    /\ now < MaxTicks * TickMs
    /\ now' = now + WindowMs + TickMs
    /\ UNCHANGED <<process, apiVars, vmVars, schedVars, cycles, dbVars, nResolves, nFailures>>

----------------------------------------------------------------------------
(* Collection cycle: collectMetrics, one step per awaited call *)

\* One invocation of collectMetrics: its position, its local variables and
\* what it has done so far.  direct marks an invocation of checkForAlerts
\* made outside collectMetrics; error tells what became of an error that
\* reached collectMetrics.
Frame(pc, direct, found, reading) ==
    [pc |-> pc, direct |-> direct, vms |-> found, i |-> 1,
     reading |-> reading, events |-> <<>>, j |-> 1, existing |-> 0,
     enumerated |-> FALSE, aggregated |-> FALSE, error |-> "none"]

NewCycle == Frame("find", FALSE, <<>>, NoReading)

\* The setInterval callback: it starts collectMetrics whether or not an
\* earlier invocation has returned.
TimerFire(t) ==
    /\ t \in timers
    /\ now >= t.due
    /\ timers' = (timers \ {t}) \cup {[t EXCEPT !.due = now + PeriodMs]}
    /\ cycles' = Append(cycles, NewCycle)
    /\ UNCHANGED <<process, apiVars, vmVars, now, isRunning, metricsInterval, warned, dbVars,
                   nResolves, nFailures>>

\* The filter of VM.find in collectMetrics
SampledStatuses == {"running", "starting", "stopping"}

\* An enumeration with no status filter
IsSampled_Any(status) == TRUE

IsSampled(status) == status \in SampledStatuses

RECURSIVE FindVMs(_)
\* VM.find({status: {$in: ...}}) over the ids from k on, in id order
FindVMs(k) ==
    IF k > MaxVMs THEN <<>>
    ELSE (IF vms[k] # "none" /\ IsSampled(vms[k])
          THEN <<[id |-> k, status |-> vms[k]]>> ELSE <<>>) \o FindVMs(k + 1)

\* A collectMetrics whose catch lets the error through to the timer callback
collectMetricsCatch_Rethrow == "uncaught"

\* What collectMetrics does with an error that reaches it: its catch logs
\* it and the method returns normally.
collectMetricsCatch == "caught"

\* The outer catch of collectMetrics: the invocation ends
Aborted(c) == [c EXCEPT !.pc = "done", !.error = collectMetricsCatch]

\* The end of one iteration of "for (const vm of vms)"; checkForAlerts
\* called directly returns to its caller.
NextVM(c) ==
    IF c.direct THEN [c EXCEPT !.pc = "done"]
    ELSE [c EXCEPT !.i = c.i + 1, !.reading = NoReading, !.events = <<>>,
                   !.j = 1, !.existing = 0,
                   !.pc = IF c.i < Len(c.vms) THEN "sample" ELSE "system"]

\* The end of one iteration of "for (const alert of alerts)"
NextAlert(c) ==
    IF c.j < Len(c.events)
    THEN [c EXCEPT !.j = c.j + 1, !.existing = 0, !.pc = "lookup"]
    ELSE NextVM([c EXCEPT !.j = c.j + 1, !.existing = 0])

CollectFind(k, ok) ==
    /\ k \in 1..Len(cycles)
    /\ DbCall(ok)
    /\ cycles[k].pc = "find"
    /\ LET c     == cycles[k]
           found == FindVMs(1)
       IN  cycles' = [cycles EXCEPT ![k] =
               IF ~ok THEN Aborted(c)
               ELSE [c EXCEPT !.vms = found, !.enumerated = TRUE,
                              !.pc = IF found = <<>> THEN "system" ELSE "sample"]]
    /\ UNCHANGED <<process, apiVars, vmVars, now, schedVars, dbVars, nResolves>>

\* generateVMMetrics and saveVMMetrics for the current instance
CollectSample(k, d, ok) ==
    /\ k \in 1..Len(cycles)
    /\ DbCall(ok)
    /\ cycles[k].pc = "sample"
    /\ LET c     == cycles[k]
           vm    == c.vms[c.i]
           m     == generateVMMetrics(vm, d)
           saved == ok /\ ValidMetrics(m)
       IN  /\ metrics' = IF saved THEN Append(metrics, MetricPoint(vm.id, m))
                                  ELSE metrics
           /\ cycles' = [cycles EXCEPT ![k] =
                  IF ~saved /\ saveVMMetricsFailure = "thrown" THEN Aborted(c)
                  ELSE [c EXCEPT !.reading = m, !.pc = "check"]]
    /\ UNCHANGED <<process, apiVars, vmVars, now, schedVars, alerts, perf, nResolves>>

\* checkForAlerts up to its "Save alerts" loop
CheckForAlerts(k) ==
    /\ k \in 1..Len(cycles)
    /\ cycles[k].pc = "check"
    /\ LET c      == cycles[k]
           events == checkForAlerts(c.reading)
       IN  cycles' = [cycles EXCEPT ![k] =
               IF events = <<>> THEN NextVM(c)
               ELSE [c EXCEPT !.events = events, !.j = 1, !.pc = "lookup"]]
    /\ UNCHANGED <<process, apiVars, vmVars, now, schedVars, dbVars, nResolves, nFailures>>

\* A createAlert that lets the failure of its lookup or save through
createAlertCatch_Rethrow == "thrown"

\* What createAlert does with a failed findOne or save: its catch logs the
\* error and the method returns normally.
createAlertCatch == "caught"

\* The candidate is dropped; an error createAlert let through would pass
\* checkForAlerts and end in the catch of collectMetrics
DropAlert(c) ==
    IF createAlertCatch = "thrown" THEN Aborted(c) ELSE NextAlert(c)

\* createAlert: the findOne; a failure is caught and logged by createAlert
CreateAlertLookup(k, ok) ==
    /\ k \in 1..Len(cycles)
    /\ DbCall(ok)
    /\ cycles[k].pc = "lookup"
    /\ LET c  == cycles[k]
           vm == c.vms[c.i]
           ev == c.events[c.j]
       IN  cycles' = [cycles EXCEPT ![k] =
               IF ~ok THEN DropAlert(c)
               ELSE [c EXCEPT !.existing = findOneAlert(vm.id, ev.type),
                              !.pc = "alertSave"]]
    /\ UNCHANGED <<process, apiVars, vmVars, now, schedVars, dbVars, nResolves>>

\* createAlert: the save of the update branch or of the create branch
CreateAlertSave(k, ok) ==
    /\ k \in 1..Len(cycles)
    /\ DbCall(ok)
    /\ cycles[k].pc = "alertSave"
    /\ LET c  == cycles[k]
           vm == c.vms[c.i]
           ev == c.events[c.j]
       IN  /\ alerts' =
                  IF ~ok THEN alerts
                  ELSE IF c.existing # 0
                       THEN [alerts EXCEPT ![c.existing] = UpdatedAlert(@, ev)]
                       ELSE Append(alerts, NewAlert(vm.id, ev))
           /\ cycles' = [cycles EXCEPT ![k] =
                  IF ~ok THEN DropAlert(c) ELSE NextAlert(c)]
    /\ UNCHANGED <<process, apiVars, vmVars, now, schedVars, metrics, perf, nResolves>>

\* collectSystemMetrics as called by collectMetrics; a failure is logged,
\* rethrown and caught by collectMetrics
CollectSystem(k, ok) ==
    /\ k \in 1..Len(cycles)
    /\ DbCall(ok)
    /\ cycles[k].pc = "system"
    /\ perf' = IF ok THEN Append(perf, [operation |-> "system_metrics_collection",
                                        timestamp |-> now])
                     ELSE perf
    /\ cycles' = [cycles EXCEPT ![k] =
           IF ok THEN [@ EXCEPT !.pc = "done", !.aggregated = TRUE]
           ELSE Aborted([@ EXCEPT !.aggregated = TRUE])]
    /\ UNCHANGED <<process, apiVars, vmVars, now, schedVars, metrics, alerts, nResolves>>

RemoveAt(s, k) == SubSeq(s, 1, k - 1) \o SubSeq(s, k + 1, Len(s))

\* The promise of the invocation settles
CollectReturn(k) ==
    /\ k \in 1..Len(cycles)
    /\ cycles[k].pc = "done"
    /\ cycles' = RemoveAt(cycles, k)
    /\ UNCHANGED <<process, apiVars, vmVars, now, schedVars, dbVars, nResolves, nFailures>>

\* resolveAlert: findByIdAndUpdate; an unknown id finds nothing
ResolveAlert(id) ==
    /\ nResolves < MaxResolves
    /\ nResolves' = nResolves + 1
    /\ alerts' = IF id \in 1..Len(alerts)
                 THEN [alerts EXCEPT ![id] = ResolvedAlert(@)]
                 ELSE alerts
    /\ UNCHANGED <<process, apiVars, vmVars, now, schedVars, cycles, metrics, perf, nFailures>>

----------------------------------------------------------------------------
(* Requests: MonitoringController.resolveAlert and the query operations *)

\* The identifier that is no ObjectId (any string mongoose cannot cast)
MalformedId == 0

\* The cast of an _id in a mongoose filter
IsObjectId(id) == id # MalformedId

\* The value of req.app.get('io'): the server registers no 'io' on the app,
\* so the lookup gives undefined.
ioRegistered == FALSE

\* What a request handler leaves behind: the operation and its arguments,
\* the status it answered with, the error its catch logged ("none" when it
\* caught nothing), and what it got from the store.
Reply(op, id, range, status, error, alert, items, summary) ==
    [op |-> op, id |-> id, range |-> range, status |-> status, error |-> error,
     alert |-> alert, items |-> items, summary |-> summary]

\* An object with no property
EmptyObject == [f \in {} |-> 0]

\* MonitoringController.resolveAlert with MonitoringService.resolveAlert:
\* the cast of the id, findByIdAndUpdate, the 404 for null, the emit on io
\* and the answer.
ResolveAlertRequest(id, ok) ==
    /\ nResolves < MaxResolves
    /\ nResolves' = nResolves + 1
    /\ ~IsObjectId(id) => ok
    /\ DbCall(ok)
    /\ LET found  == IsObjectId(id) /\ ok /\ id \in 1..Len(alerts)
           error  == IF ~IsObjectId(id) THEN "CastError"
                     ELSE IF ~ok THEN "MongoError"
                     ELSE IF found /\ ~ioRegistered THEN "TypeError"
                     ELSE "none"
           status == IF error # "none" THEN "500"
                     ELSE IF ~found THEN "404" ELSE "200"
       IN  /\ alerts' = IF found THEN [alerts EXCEPT ![id] = ResolvedAlert(@)]
                                 ELSE alerts
           /\ emitted' = IF found /\ ioRegistered THEN emitted + 1 ELSE emitted
           /\ reply' = Reply("resolveAlert", id, "", status, error,
                             IF found THEN id ELSE 0, <<>>, EmptyObject)
    /\ UNCHANGED <<process, vmVars, now, schedVars, cycles, metrics, perf>>

\* The keys of the table timeRanges of the three range queries
TimeRangeKeys == {"1h", "24h", "7d", "30d"}

\* timeRanges[timeRange], in seconds (thirty days in milliseconds are beyond
\* the integers of the model)
timeRanges(range) ==
    CASE range = "1h"  -> 60 * 60
      [] range = "24h" -> 24 * 60 * 60
      [] range = "7d"  -> 7 * 24 * 60 * 60
      [] range = "30d" -> 30 * 24 * 60 * 60

\* The keywords the queries are called with: two of the table and one that
\* is not in it
RangeInputs == {"1h", "24h", "2h"}

\* new Date(Date.now() - timeRanges[timeRange]): undefined for a keyword
\* outside the table, and the date is an Invalid Date
IsInvalidDate(range) == range \notin TimeRangeKeys

\* A bound that leaves out the point exactly at since
Since_Strict(timestamp, range) ==
    timestamp \div 1000 > now \div 1000 - timeRanges(range)

\* timestamp: { $gte: since }
Since(timestamp, range) ==
    timestamp \div 1000 >= now \div 1000 - timeRanges(range)

RECURSIVE Ascending(_)
\* The members of a set of positions, smallest first
Ascending(S) ==
    IF S = {} THEN <<>>
    ELSE LET m == CHOOSE x \in S : \A y \in S : x <= y
         IN  <<m>> \o Ascending(S \ {m})

\* The positions of the documents of a collection that pass a filter (the
\* set of documents the query keeps), in insertion order
SelectIds(coll, keep) == Ascending({k \in 1..Len(coll) : coll[k] \in keep})

RECURSIVE SumCpu(_)
SumCpu(ids) ==
    IF ids = <<>> THEN 0 ELSE metrics[Head(ids)].cpuUsage + SumCpu(Tail(ids))

RECURSIVE MaxCpu(_)
MaxCpu(ids) ==
    IF Len(ids) = 1 THEN metrics[ids[1]].cpuUsage
    ELSE LET rest == MaxCpu(Tail(ids))
         IN  IF metrics[Head(ids)].cpuUsage > rest
             THEN metrics[Head(ids)].cpuUsage ELSE rest

\* The $group stage of getPerformanceSummary over the matched points (the
\* CPU fields and the count; the other fields follow the same pattern), and
\* "summary[0] || {}"
Summarize(ids) ==
    IF ids = <<>> THEN EmptyObject
    ELSE [avgCpuUsage |-> SumCpu(ids) \div Len(ids),
          maxCpuUsage |-> MaxCpu(ids),
          dataPoints  |-> Len(ids)]

RECURSIVE OldestFirst(_)
\* sort({ timestamp: 1 }) of a list of MetricPoint ids
OldestFirst(ids) ==
    IF ids = <<>> THEN <<>>
    ELSE LET p == CHOOSE i \in 1..Len(ids) : \A j \in 1..Len(ids) :
                      \/ metrics[ids[i]].timestamp < metrics[ids[j]].timestamp
                      \/ /\ metrics[ids[i]].timestamp = metrics[ids[j]].timestamp
                         /\ i <= j
         IN  <<ids[p]>> \o OldestFirst(RemoveAt(ids, p))

\* MonitoringService.getVMMetrics: VMMetrics.find casts the filter, and the
\* cast of an Invalid Date fails; the points come oldest first.
GetVMMetrics(vmId, range, ok) ==
    /\ IsInvalidDate(range) => ok
    /\ DbCall(ok)
    /\ LET Keep == {m \in {metrics[k] : k \in 1..Len(metrics)} : m.vmId = vmId /\ Since(m.timestamp, range)}
       IN  reply' =
               IF IsInvalidDate(range)
               THEN Reply("getVMMetrics", vmId, range, "thrown", "CastError",
                          0, <<>>, EmptyObject)
               ELSE IF ~ok
               THEN Reply("getVMMetrics", vmId, range, "thrown", "MongoError",
                          0, <<>>, EmptyObject)
               ELSE Reply("getVMMetrics", vmId, range, "returned", "none",
                          0, OldestFirst(SelectIds(metrics, Keep)), EmptyObject)
    /\ UNCHANGED <<process, vmVars, now, schedVars, cycles, dbVars, nResolves, emitted>>

\* MonitoringService.getSystemMetrics: PerformanceMetrics.find with a
\* filter on category, a path the schema does not have and no document
\* stores at the top level.  A mongoose whose strictQuery is on drops the
\* condition, one whose strictQuery is off sends it and matches nothing.
GetSystemMetrics(range, strictQuery, ok) ==
    /\ IsInvalidDate(range) => ok
    /\ DbCall(ok)
    /\ LET Keep == {p \in {perf[k] : k \in 1..Len(perf)} : strictQuery /\ Since(p.timestamp, range)}
           found   == SelectIds(perf, Keep)
       IN  reply' =
               IF IsInvalidDate(range)
               THEN Reply("getSystemMetrics", 0, range, "thrown", "CastError",
                          0, <<>>, EmptyObject)
               ELSE IF ~ok
               THEN Reply("getSystemMetrics", 0, range, "thrown", "MongoError",
                          0, <<>>, EmptyObject)
               ELSE Reply("getSystemMetrics", 0, range, "returned", "none",
                          0, found, [length |-> Len(found)])
    /\ UNCHANGED <<process, vmVars, now, schedVars, cycles, dbVars, nResolves, emitted>>

\* MonitoringService.getPerformanceSummary: the aggregate pipeline is not
\* cast.  An Invalid Date in $match is either refused by the driver or
\* serialized as the epoch, and then every point matches.
GetPerformanceSummary(range, refused, ok) ==
    /\ (IsInvalidDate(range) /\ refused) => ok
    /\ ~IsInvalidDate(range) => ~refused
    /\ DbCall(ok)
    /\ LET Keep == {m \in {metrics[k] : k \in 1..Len(metrics)} : IsInvalidDate(range) \/ Since(m.timestamp, range)}
       IN  reply' =
               IF refused
               THEN Reply("getPerformanceSummary", 0, range, "thrown", "BSONError",
                          0, <<>>, EmptyObject)
               ELSE IF ~ok
               THEN Reply("getPerformanceSummary", 0, range, "thrown", "MongoError",
                          0, <<>>, EmptyObject)
               ELSE Reply("getPerformanceSummary", 0, range, "returned", "none",
                          0, <<>>, Summarize(SelectIds(metrics, Keep)))
    /\ UNCHANGED <<process, vmVars, now, schedVars, cycles, dbVars, nResolves, emitted>>

\* A getActiveAlerts that lists every record
IsActive_All(a, vmId) == vmId # 0 => a.vmId = vmId

\* The query of getActiveAlerts: resolved: false, and vmId when one is
\* given (0 stands for null)
IsActive(a, vmId) ==
    /\ a.resolved = FALSE
    /\ vmId # 0 => a.vmId = vmId

RECURSIVE NewestFirst(_)
\* sort({ createdAt: -1 }) of a list of alert ids
NewestFirst(ids) ==
    IF ids = <<>> THEN <<>>
    ELSE LET p == CHOOSE i \in 1..Len(ids) : \A j \in 1..Len(ids) :
                      \/ alerts[ids[i]].createdAt > alerts[ids[j]].createdAt
                      \/ alerts[ids[i]].createdAt = alerts[ids[j]].createdAt /\ i <= j
         IN  <<ids[p]>> \o NewestFirst(RemoveAt(ids, p))

\* MonitoringService.getActiveAlerts: the ids of the documents returned
GetActiveAlerts(vmId, ok) ==
    /\ DbCall(ok)
    /\ LET Keep == {a \in {alerts[k] : k \in 1..Len(alerts)} : IsActive(a, vmId)}
       IN  reply' =
               IF ~ok
               THEN Reply("getActiveAlerts", vmId, "", "thrown", "MongoError",
                          0, <<>>, EmptyObject)
               ELSE Reply("getActiveAlerts", vmId, "", "returned", "none",
                          0, NewestFirst(SelectIds(alerts, Keep)), EmptyObject)
    /\ UNCHANGED <<process, vmVars, now, schedVars, cycles, dbVars, nResolves, emitted>>

\* activeAlerts.filter(alert => alert.severity === s).length
CountSeverity(ids, s) ==
    Cardinality({n \in 1..Len(ids) : alerts[ids[n]].severity = s})

\* MonitoringController.getSystemOverview: collectSystemMetrics, which
\* saves a PerformanceMetrics document, then getActiveAlerts
GetSystemOverview(ok) ==
    /\ Len(perf) < MaxPerf
    /\ DbCall(ok)
    /\ perf' = IF ok THEN Append(perf, [operation |-> "system_metrics_collection",
                                        timestamp |-> now])
                     ELSE perf
    /\ LET Keep == {a \in {alerts[k] : k \in 1..Len(alerts)} : IsActive(a, 0)}
           active  == NewestFirst(SelectIds(alerts, Keep))
       IN  reply' =
               IF ~ok
               THEN Reply("getSystemOverview", 0, "", "500", "MongoError",
                          0, <<>>, EmptyObject)
               ELSE Reply("getSystemOverview", 0, "", "200", "none",
                          0, <<>>,
                          [alerts         |-> Len(active),
                           criticalAlerts |-> CountSeverity(active, "critical"),
                           warningAlerts  |-> CountSeverity(active, "warning")])
    /\ UNCHANGED <<process, vmVars, now, schedVars, cycles, metrics, alerts, nResolves,
                   emitted>>

\* MonitoringController.getDashboardData: getSystemMetrics, getActiveAlerts
\* and getPerformanceSummary under Promise.all; the find of getSystemMetrics
\* rejects for a keyword outside the table.  The answer carries the three
\* results and the overview computed from them.
GetDashboardData(range, strictQuery, ok) ==
    /\ IsInvalidDate(range) => ok
    /\ DbCall(ok)
    /\ LET KeepPerf  == {p \in {perf[k] : k \in 1..Len(perf)} : strictQuery /\ Since(p.timestamp, range)}
           KeepPoint == {m \in {metrics[k] : k \in 1..Len(metrics)} : Since(m.timestamp, range)}
           KeepAlert == {a \in {alerts[k] : k \in 1..Len(alerts)} : IsActive(a, 0)}
           systemMetrics == SelectIds(perf, KeepPerf)
           activeAlerts  == NewestFirst(SelectIds(alerts, KeepAlert))
           overview ==
               [totalDataPoints  |-> Len(systemMetrics),
                activeAlertCount |-> Len(activeAlerts),
                criticalAlerts   |-> CountSeverity(activeAlerts, "critical"),
                warningAlerts    |-> CountSeverity(activeAlerts, "warning")]
       IN  reply' =
               IF IsInvalidDate(range)
               THEN Reply("getDashboardData", 0, range, "500", "CastError",
                          0, <<>>, EmptyObject)
               ELSE IF ~ok
               THEN Reply("getDashboardData", 0, range, "500", "MongoError",
                          0, <<>>, EmptyObject)
               ELSE Reply("getDashboardData", 0, range, "200", "none",
                          Len(systemMetrics), activeAlerts,
                          Summarize(SelectIds(metrics, KeepPoint)))
                    @@ [overview |-> overview]
    /\ UNCHANGED <<process, vmVars, now, schedVars, cycles, dbVars, nResolves, emitted>>

----------------------------------------------------------------------------
(* VM lifecycle requests: the status changes the collection cycle observes *)

VmTimer(v, to) == [vm |-> v, to |-> to]

CreateVM(v) ==
    /\ nVmOps < MaxVmOps
    /\ vms[v] = "none"
    /\ vms' = [vms EXCEPT ![v] = "creating"]
    /\ vmTimers' = vmTimers \cup {VmTimer(v, "running")}
    /\ nVmOps' = nVmOps + 1
    /\ UNCHANGED <<process, deletes, apiVars, now, schedVars, cycles, dbVars, nResolves, nFailures>>

StartVM(v) ==
    /\ nVmOps < MaxVmOps
    /\ vms[v] \notin {"none", "running"}
    /\ vms' = [vms EXCEPT ![v] = "starting"]
    /\ vmTimers' = vmTimers \cup {VmTimer(v, "running")}
    /\ nVmOps' = nVmOps + 1
    /\ UNCHANGED <<process, deletes, apiVars, now, schedVars, cycles, dbVars, nResolves, nFailures>>

StopVM(v) ==
    /\ nVmOps < MaxVmOps
    /\ vms[v] \notin {"none", "stopped"}
    /\ vms' = [vms EXCEPT ![v] = "stopping"]
    /\ vmTimers' = vmTimers \cup {VmTimer(v, "stopped")}
    /\ nVmOps' = nVmOps + 1
    /\ UNCHANGED <<process, deletes, apiVars, now, schedVars, cycles, dbVars, nResolves, nFailures>>

\* A delete starts no status transition and is not counted in nVmOps
DeleteVM(v) ==
    /\ vms[v] = "stopped"
    /\ vms' = [vms EXCEPT ![v] = "none"]
    /\ UNCHANGED <<process, deletes, apiVars, vmTimers, nVmOps, now, schedVars, cycles, dbVars, nResolves,
                   nFailures>>

\* The delayed findByIdAndUpdate(id, {status}); no document, no update
VmTimerFire(t) ==
    /\ t \in vmTimers
    /\ vmTimers' = vmTimers \ {t}
    /\ vms' = IF vms[t.vm] = "none" THEN vms ELSE [vms EXCEPT ![t.vm] = t.to]
    /\ UNCHANGED <<process, deletes, apiVars, nVmOps, now, schedVars, cycles, dbVars, nResolves, nFailures>>

----------------------------------------------------------------------------
(* VM lifecycle requests on the millisecond clock: the handlers of         *)
(* VMController with their answers, the delays of their setTimeout calls,  *)
(* and the awaited steps of the delete handler.                            *)

CreateDelayMs == 2000             \* setTimeout delay of VMService.createVM
StartDelayMs  == 2000             \* setTimeout delay of VMController.startVM
StopDelayMs   == 1500             \* setTimeout delay of VMController.stopVM
VmTickMs      == 500              \* granularity of the clock of the requests

\* A pending setTimeout callback and the time it is due
VmTimeout(v, to, delay) == [vm |-> v, to |-> to, due |-> now + delay]

\* The answer of a VM lifecycle handler
VmReply(op, v, status) ==
    Reply(op, v, "", status, "none", 0, <<>>, EmptyObject)

\* Time passes while requests may still come or a timeout is pending
TickMsec ==
    /\ now < MaxTicks * VmTickMs \/ \E t \in vmTimers : now < t.due
    /\ now' = now + VmTickMs
    /\ UNCHANGED <<process, apiVars, vmVars, schedVars, cycles, dbVars, nResolves,
                   nFailures>>

\* VMController.createVM with VMService.createVM: the document is saved
\* with status creating and the timeout that sets it running is armed
CreateVMRequest(v) ==
    /\ nVmOps < MaxVmOps
    /\ vms[v] = "none"
    /\ vms' = [vms EXCEPT ![v] = "creating"]
    /\ vmTimers' = vmTimers \cup {VmTimeout(v, "running", CreateDelayMs)}
    /\ nVmOps' = nVmOps + 1
    /\ reply' = VmReply("createVM", v, "201")
    /\ UNCHANGED <<process, emitted, deletes, now, schedVars, cycles, dbVars,
                   nResolves, nFailures>>

\* VMController.startVM: 404 for no VM, 400 for a running VM, else the
\* status is set to starting and the timeout that sets it running is armed
StartVMRequest(v) ==
    /\ IF vms[v] = "none"
       THEN /\ reply' = VmReply("startVM", v, "404")
            /\ UNCHANGED <<vms, vmTimers, nVmOps>>
       ELSE IF vms[v] = "running"
       THEN /\ reply' = VmReply("startVM", v, "400")
            /\ UNCHANGED <<vms, vmTimers, nVmOps>>
       ELSE /\ nVmOps < MaxVmOps
            /\ vms' = [vms EXCEPT ![v] = "starting"]
            /\ vmTimers' = vmTimers \cup {VmTimeout(v, "running", StartDelayMs)}
            /\ nVmOps' = nVmOps + 1
            /\ reply' = VmReply("startVM", v, "200")
    /\ UNCHANGED <<process, emitted, deletes, now, schedVars, cycles, dbVars,
                   nResolves, nFailures>>

\* VMController.stopVM: 404 for no VM, 400 for a stopped VM, else the
\* status is set to stopping and the timeout that sets it stopped is armed
StopVMRequest(v) ==
    /\ IF vms[v] = "none"
       THEN /\ reply' = VmReply("stopVM", v, "404")
            /\ UNCHANGED <<vms, vmTimers, nVmOps>>
       ELSE IF vms[v] = "stopped"
       THEN /\ reply' = VmReply("stopVM", v, "400")
            /\ UNCHANGED <<vms, vmTimers, nVmOps>>
       ELSE /\ nVmOps < MaxVmOps
            /\ vms' = [vms EXCEPT ![v] = "stopping"]
            /\ vmTimers' = vmTimers \cup {VmTimeout(v, "stopped", StopDelayMs)}
            /\ nVmOps' = nVmOps + 1
            /\ reply' = VmReply("stopVM", v, "200")
    /\ UNCHANGED <<process, emitted, deletes, now, schedVars, cycles, dbVars,
                   nResolves, nFailures>>

\* The callback of a timeout, in the order the timeouts are due:
\* findByIdAndUpdate(id, {status}); with no document nothing is updated
\* (updateVMStatus throws 'VM not found' and the callback logs it)
VmTimeoutFire(t) ==
    /\ t \in vmTimers
    /\ now >= t.due
    /\ \A u \in vmTimers : t.due <= u.due
    /\ vmTimers' = vmTimers \ {t}
    /\ vms' = IF vms[t.vm] = "none" THEN vms ELSE [vms EXCEPT ![t.vm] = t.to]
    /\ UNCHANGED <<process, apiVars, deletes, nVmOps, now, schedVars, cycles,
                   dbVars, nResolves, nFailures>>

\* A DELETE handler between two of its awaited calls
DeleteFrame(v, pc) == [vm |-> v, pc |-> pc]

\* VMController.deleteVM up to its call of VMService.deleteVM: getVMById,
\* 404 for no VM, and for a VM that is not stopped the answer 'VM deleted
\* successfully' with nothing deleted
DeleteVMCheck(v) ==
    /\ \A f \in deletes : f.vm # v
    /\ IF vms[v] = "none"
       THEN /\ reply' = VmReply("deleteVM", v, "404")
            /\ UNCHANGED deletes
       ELSE IF vms[v] # "stopped"
       THEN /\ reply' = VmReply("deleteVM", v, "200")
            /\ UNCHANGED deletes
       ELSE /\ deletes' = deletes \cup {DeleteFrame(v, "find")}
            /\ UNCHANGED reply
    /\ UNCHANGED <<process, emitted, vms, vmTimers, nVmOps, now, schedVars,
                   cycles, dbVars, nResolves, nFailures>>

\* VMService.deleteVM: VM.findById; no document throws 'VM not found', which
\* the handler answers with 500
DeleteVMFind(f) ==
    /\ f \in deletes
    /\ f.pc = "find"
    /\ IF vms[f.vm] = "none"
       THEN /\ deletes' = deletes \ {f}
            /\ reply' = VmReply("deleteVM", f.vm, "500")
       ELSE /\ deletes' = (deletes \ {f}) \cup
                   {DeleteFrame(f.vm, IF vms[f.vm] = "running" THEN "stop"
                                                               ELSE "remove")}
            /\ UNCHANGED reply
    /\ UNCHANGED <<process, emitted, vms, vmTimers, nVmOps, now, schedVars,
                   cycles, dbVars, nResolves, nFailures>>

\* VMService.deleteVM, "Stop VM if running": findByIdAndUpdate(id, {status:
\* 'stopping'})
DeleteVMStop(f) ==
    /\ f \in deletes
    /\ f.pc = "stop"
    /\ vms' = IF vms[f.vm] = "none" THEN vms
                                    ELSE [vms EXCEPT ![f.vm] = "stopping"]
    /\ deletes' = (deletes \ {f}) \cup {DeleteFrame(f.vm, "remove")}
    /\ UNCHANGED <<process, apiVars, vmTimers, nVmOps, now, schedVars, cycles,
                   dbVars, nResolves, nFailures>>

\* VMService.deleteVM: VM.findByIdAndDelete and the deleteMany of the
\* snapshots, then the answer 'VM deleted successfully'
DeleteVMRemove(f) ==
    /\ f \in deletes
    /\ f.pc = "remove"
    /\ vms' = [vms EXCEPT ![f.vm] = "none"]
    /\ deletes' = deletes \ {f}
    /\ reply' = VmReply("deleteVM", f.vm, "200")
    /\ UNCHANGED <<process, emitted, vmTimers, nVmOps, now, schedVars, cycles,
                   dbVars, nResolves, nFailures>>

----------------------------------------------------------------------------
(* The service after construction, under every request and callback *)

Init ==
    /\ vms = [v \in VmIds |-> "none"]
    /\ vmTimers = {}
    /\ deletes = {}
    /\ nVmOps = 0
    /\ now = 0
    /\ isRunning = FALSE
    /\ metricsInterval = 0
    /\ timers = {}
    /\ warned = FALSE
    /\ cycles = <<>>
    /\ metrics = <<>>
    /\ alerts = <<>>
    /\ perf = <<>>
    /\ nResolves = 0
    /\ nFailures = 0
    /\ reply = NoReply
    /\ emitted = 0
    /\ process = "up"

\* The steps of the invocations in flight
CycleStep ==
    \/ \E k \in 1..Len(cycles), ok \in BOOLEAN : CollectFind(k, ok)
    \/ \E k \in 1..Len(cycles), d \in CycleDraws, ok \in BOOLEAN : CollectSample(k, d, ok)
    \/ \E k \in 1..Len(cycles) : CheckForAlerts(k)
    \/ \E k \in 1..Len(cycles), ok \in BOOLEAN : CreateAlertLookup(k, ok)
    \/ \E k \in 1..Len(cycles), ok \in BOOLEAN : CreateAlertSave(k, ok)
    \/ \E k \in 1..Len(cycles), ok \in BOOLEAN : CollectSystem(k, ok)
    \/ \E k \in 1..Len(cycles) : CollectReturn(k)

\* The VM lifecycle requests and their delayed status updates
VmStep ==
    \/ \E v \in VmIds : CreateVM(v)
    \/ \E v \in VmIds : StartVM(v)
    \/ \E v \in VmIds : StopVM(v)
    \/ \E v \in VmIds : DeleteVM(v)
    \/ \E t \in vmTimers : VmTimerFire(t)

Next ==
    \/ StartMonitoring
    \/ StopMonitoring
    \/ Tick
    \/ \E t \in timers : TimerFire(t)
    \/ CycleStep
    \/ \E id \in 1..(Len(alerts) + 1) : ResolveAlert(id)
    \/ VmStep

Spec == Init /\ [][Next]_vars

----------------------------------------------------------------------------
(* The regime in which every collection cycle returns within the period:   *)
(* the callback fires only when no invocation is in flight.                *)

TimerFireIdle(t) == cycles = <<>> /\ TimerFire(t)

NextSeq ==
    \/ StartMonitoring
    \/ StopMonitoring
    \/ Tick
    \/ \E t \in timers : TimerFireIdle(t)
    \/ CycleStep
    \/ \E id \in 1..(Len(alerts) + 1) : ResolveAlert(id)
    \/ VmStep

SpecSeq == Init /\ [][NextSeq]_vars

----------------------------------------------------------------------------
(* The scheduler alone, over a fleet with no VM: the cycles the timer      *)
(* starts enumerate nothing and go straight to the system aggregation.     *)

NextSched ==
    \/ StartMonitoring
    \/ StopMonitoring
    \/ Tick
    \/ \E t \in timers : TimerFire(t)
    \/ \E k \in 1..Len(cycles), ok \in BOOLEAN : CollectFind(k, ok)
    \/ \E k \in 1..Len(cycles), ok \in BOOLEAN : CollectSystem(k, ok)
    \/ \E k \in 1..Len(cycles) : CollectReturn(k)

SpecSched == Init /\ [][NextSched]_vars

----------------------------------------------------------------------------
(* One collection cycle under VM lifecycle requests: the service is        *)
(* running, the timer has just fired once, and the fleet is any mix of     *)
(* absent, running and stopped VMs.                                        *)

InitOnce ==
    /\ vms \in [VmIds -> {"none", "running", "stopped"}]
    /\ vmTimers = {}
    /\ deletes = {}
    /\ nVmOps = 0
    /\ now = TickMs
    /\ isRunning = TRUE
    /\ metricsInterval = 1
    /\ timers = {[id |-> 1, due |-> TickMs + PeriodMs]}
    /\ warned = FALSE
    /\ cycles = <<NewCycle>>
    /\ metrics = <<>>
    /\ alerts = <<>>
    /\ perf = <<>>
    /\ nResolves = 0
    /\ nFailures = 0
    /\ reply = NoReply
    /\ emitted = 0
    /\ process = "up"

NextOnce ==
    \/ CycleStep
    \/ VmStep

SpecOnce == InitOnce /\ [][NextOnce]_vars

----------------------------------------------------------------------------
(* The alert store: successive collection cycles over a fleet of one       *)
(* running VM, and resolveAlert requests.                                  *)

InitStore ==
    /\ vms = [v \in VmIds |-> IF v = 1 THEN "running" ELSE "none"]
    /\ vmTimers = {}
    /\ deletes = {}
    /\ nVmOps = 0
    /\ now = TickMs
    /\ isRunning = TRUE
    /\ metricsInterval = 1
    /\ timers = {[id |-> 1, due |-> TickMs + PeriodMs]}
    /\ warned = FALSE
    /\ cycles = <<NewCycle>>
    /\ metrics = <<>>
    /\ alerts = <<>>
    /\ perf = <<>>
    /\ nResolves = 0
    /\ nFailures = 0
    /\ reply = NoReply
    /\ emitted = 0
    /\ process = "up"

NextStore ==
    \/ Tick
    \/ TickWindow
    \/ \E t \in timers : TimerFireIdle(t)
    \/ CycleStep
    \/ \E id \in 1..(Len(alerts) + 1) : ResolveAlert(id)

SpecStore == InitStore /\ [][NextStore]_vars

----------------------------------------------------------------------------
(* The requests of the monitoring API, served while one collection cycle,  *)
(* whose database calls all succeed, runs over a fleet of one running VM.  *)

\* The steps of the invocations in flight when every database call succeeds
CycleStepOk ==
    \/ \E k \in 1..Len(cycles) : CollectFind(k, TRUE)
    \/ \E k \in 1..Len(cycles), d \in CycleDraws : CollectSample(k, d, TRUE)
    \/ \E k \in 1..Len(cycles) : CheckForAlerts(k)
    \/ \E k \in 1..Len(cycles) : CreateAlertLookup(k, TRUE)
    \/ \E k \in 1..Len(cycles) : CreateAlertSave(k, TRUE)
    \/ \E k \in 1..Len(cycles) : CollectSystem(k, TRUE)
    \/ \E k \in 1..Len(cycles) : CollectReturn(k)

Request ==
    \/ \E id \in 0..(Len(alerts) + 1), ok \in BOOLEAN : ResolveAlertRequest(id, ok)
    \/ \E v \in VmIds, r \in RangeInputs, ok \in BOOLEAN : GetVMMetrics(v, r, ok)
    \/ \E r \in RangeInputs, sq \in BOOLEAN, ok \in BOOLEAN : GetSystemMetrics(r, sq, ok)
    \/ \E r \in RangeInputs, rf \in BOOLEAN, ok \in BOOLEAN :
           GetPerformanceSummary(r, rf, ok)
    \/ \E v \in 0..MaxVMs, ok \in BOOLEAN : GetActiveAlerts(v, ok)
    \/ \E ok \in BOOLEAN : GetSystemOverview(ok)
    \/ \E r \in RangeInputs, sq \in BOOLEAN, ok \in BOOLEAN : GetDashboardData(r, sq, ok)

NextApi ==
    \/ Tick
    \/ CycleStepOk
    \/ Request

SpecApi == InitStore /\ [][NextApi]_vars

----------------------------------------------------------------------------
(* The active-alerts listing: getActiveAlerts called while one cycle over  *)
(* two running VMs, whose database calls all succeed, fills the store as   *)
(* time passes, and resolveAlert closes records.                           *)

InitListing ==
    /\ vms = [v \in VmIds |-> IF v <= 2 THEN "running" ELSE "none"]
    /\ vmTimers = {}
    /\ deletes = {}
    /\ nVmOps = 0
    /\ now = TickMs
    /\ isRunning = TRUE
    /\ metricsInterval = 1
    /\ timers = {[id |-> 1, due |-> TickMs + PeriodMs]}
    /\ warned = FALSE
    /\ cycles = <<NewCycle>>
    /\ metrics = <<>>
    /\ alerts = <<>>
    /\ perf = <<>>
    /\ nResolves = 0
    /\ nFailures = 0
    /\ reply = NoReply
    /\ emitted = 0
    /\ process = "up"

NextListing ==
    \/ Tick
    \/ CycleStepOk
    \/ \E id \in 1..(Len(alerts) + 1) : ResolveAlert(id)
    \/ \E v \in 0..MaxVMs, ok \in BOOLEAN : GetActiveAlerts(v, ok)

SpecListing == InitListing /\ [][NextListing]_vars

----------------------------------------------------------------------------
(* Stop and shutdown while a collection cycle over two running VMs is in   *)
(* flight.                                                                 *)

NextShutdown ==
    \/ StopMonitoring
    \/ Shutdown
    \/ ProcessExit
    \/ CycleStep

SpecShutdown == InitListing /\ [][NextShutdown]_vars

----------------------------------------------------------------------------
(* The VM lifecycle API: requests on a fleet that is any mix of absent,    *)
(* running and stopped VMs, with the monitoring service not started.       *)

InitVm ==
    /\ vms \in [VmIds -> {"none", "running", "stopped"}]
    /\ vmTimers = {}
    /\ deletes = {}
    /\ nVmOps = 0
    /\ now = 0
    /\ isRunning = FALSE
    /\ metricsInterval = 0
    /\ timers = {}
    /\ warned = FALSE
    /\ cycles = <<>>
    /\ metrics = <<>>
    /\ alerts = <<>>
    /\ perf = <<>>
    /\ nResolves = 0
    /\ nFailures = 0
    /\ reply = NoReply
    /\ emitted = 0
    /\ process = "up"

NextVm ==
    \/ TickMsec
    \/ \E v \in VmIds : CreateVMRequest(v)
    \/ \E v \in VmIds : StartVMRequest(v)
    \/ \E v \in VmIds : StopVMRequest(v)
    \/ \E t \in vmTimers : VmTimeoutFire(t)
    \/ \E v \in VmIds : DeleteVMCheck(v)
    \/ \E f \in deletes : DeleteVMFind(f)
    \/ \E f \in deletes : DeleteVMStop(f)
    \/ \E f \in deletes : DeleteVMRemove(f)

SpecVm == InitVm /\ [][NextVm]_vars

----------------------------------------------------------------------------
(* The per-VM history: getVMMetrics called while successive cycles over    *)
(* two running VMs, whose database calls all succeed and whose readings    *)
(* are below every threshold, write MetricPoints hours apart.              *)

NextHistory ==
    \/ TickHour
    \/ \E t \in timers : TimerFireIdle(t)
    \/ \E k \in 1..Len(cycles) : CollectFind(k, TRUE)
    \/ \E k \in 1..Len(cycles), d \in QuietDraws : CollectSample(k, d, TRUE)
    \/ \E k \in 1..Len(cycles) : CheckForAlerts(k)
    \/ \E k \in 1..Len(cycles) : CollectSystem(k, TRUE)
    \/ \E k \in 1..Len(cycles) : CollectReturn(k)
    \/ \E v \in VmIds, r \in RangeInputs, ok \in BOOLEAN : GetVMMetrics(v, r, ok)

SpecHistory == InitListing /\ [][NextHistory]_vars

----------------------------------------------------------------------------
(* The Deduplicator under failures: one collection cycle over two running  *)
(* VMs whose readings give up to two candidate alerts each.                *)

NextDedup ==
    \/ \E k \in 1..Len(cycles), ok \in BOOLEAN : CollectFind(k, ok)
    \/ \E k \in 1..Len(cycles), d \in AlertDraws, ok \in BOOLEAN :
           CollectSample(k, d, ok)
    \/ \E k \in 1..Len(cycles) : CheckForAlerts(k)
    \/ \E k \in 1..Len(cycles), ok \in BOOLEAN : CreateAlertLookup(k, ok)
    \/ \E k \in 1..Len(cycles), ok \in BOOLEAN : CreateAlertSave(k, ok)
    \/ \E k \in 1..Len(cycles), ok \in BOOLEAN : CollectSystem(k, ok)
    \/ \E k \in 1..Len(cycles) : CollectReturn(k)

SpecDedup == InitListing /\ [][NextDedup]_vars

----------------------------------------------------------------------------
(* The Threshold Evaluator alone: checkForAlerts called on one running VM  *)
(* with a reading on or next to each threshold.                            *)

EvalReadings ==
    [cpuUsage    : {-10000, 0, 75000, 75001, 90000, 90001, 100000},
     memoryUsage : {0, 85000, 85001, 95000, 95001},
     diskUsage   : {95000, 95001},
     errorRate   : {2000, 2001},
     status      : {"running"}]

InitEval ==
    /\ vms = [v \in VmIds |-> IF v = 1 THEN "running" ELSE "none"]
    /\ vmTimers = {}
    /\ deletes = {}
    /\ nVmOps = 0
    /\ now = 0
    /\ isRunning = FALSE
    /\ metricsInterval = 0
    /\ timers = {}
    /\ warned = FALSE
    /\ \E m \in EvalReadings :
           cycles = <<Frame("check", TRUE, <<[id |-> 1, status |-> "running"]>>, m)>>
    /\ metrics = <<>>
    /\ alerts = <<>>
    /\ perf = <<>>
    /\ nResolves = 0
    /\ nFailures = 0
    /\ reply = NoReply
    /\ emitted = 0
    /\ process = "up"

NextEval ==
    \/ \E k \in 1..Len(cycles) : CheckForAlerts(k)
    \/ \E k \in 1..Len(cycles), ok \in BOOLEAN : CreateAlertLookup(k, ok)
    \/ \E k \in 1..Len(cycles), ok \in BOOLEAN : CreateAlertSave(k, ok)

SpecEval == InitEval /\ [][NextEval]_vars

----------------------------------------------------------------------------
(* Properties of the alert deduplication and of the scheduler *)

SamePair(a, b) == a.vmId = b.vmId /\ a.title = b.title

\* C1: when the cycles run one after the other, two evaluations of the same
\* (VM, alert type) less than five minutes apart, with no resolve of the
\* first record, leave one record and not two: no two unresolved-first
\* records of one pair are created less than WindowMs apart.
C1_OneRecordPerWindow ==
    \A a, b \in 1..Len(alerts) :
        (a < b /\ SamePair(alerts[a], alerts[b]) /\ ~alerts[a].resolved)
            => alerts[b].createdAt - alerts[a].createdAt >= WindowMs

\* The createAlert call a frame is in the middle of
PendingCreate(c) == [vmId |-> c.vms[c.i].id, type |-> c.events[c.j].type]

\* C2: the createAlert calls for one (VM, alert type) are serialized: no two
\* calls in flight have both found no record and are both about to create
\* one.
C2_LookupsSerialized ==
    \A k1, k2 \in 1..Len(cycles) :
        (k1 < k2 /\ cycles[k1].pc = "alertSave" /\ cycles[k2].pc = "alertSave"
                 /\ cycles[k1].existing = 0 /\ cycles[k2].existing = 0)
            => PendingCreate(cycles[k1]) # PendingCreate(cycles[k2])

\* C3: startMonitoring is idempotent: while the service is running exactly
\* one timer is live, the one metricsInterval holds, and a start that finds
\* the service running changes neither isRunning, metricsInterval nor the
\* timers.
C3_StartIdempotent ==
    /\ [](isRunning => \E t \in timers : timers = {t} /\ t.id = metricsInterval)
    /\ [][(~warned /\ warned') =>
              UNCHANGED <<isRunning, metricsInterval, timers>>]_vars

\* A start has found the service running, and the service still runs
C3_Witness ==
    warned /\ isRunning /\ Cardinality(timers) = 1 /\ perf # <<>>

\* C4: stopMonitoring leaves the service stopped with its timer cancelled:
\* while stopped no timer is live and metricsInterval is null, and no
\* collection cycle starts until the next start.
C4_StopCancels ==
    /\ [](~isRunning => timers = {} /\ metricsInterval = 0)
    /\ [][Len(cycles') > Len(cycles) => isRunning]_vars

\* The service has run a cycle and has been stopped since
C4_Witness ==
    ~isRunning /\ perf # <<>> /\ now = MaxTicks * TickMs

InFlight == {k \in 1..Len(cycles) : cycles[k].pc # "done"}

\* C5: collection cycles run one after the other: at most one cycle is in
\* flight (short of its system aggregation) at any time.
C5_NoOverlap == Cardinality(InFlight) <= 1

----------------------------------------------------------------------------
(* Properties of the Threshold Evaluator *)

\* The frames in which checkForAlerts has built its array of events
Evaluated == {k \in 1..Len(cycles) : cycles[k].pc \in {"lookup", "alertSave", "done"}}

IsCpuEvent(e) == e.type = "cpu_high"

\* C6: for a reading with cpu in (90, 100] the evaluator emits exactly one
\* cpu_high event, of severity critical; with cpu in (75, 90] exactly one,
\* of severity warning; with cpu at or below 75 none.
C6_CpuBands ==
    \A k \in Evaluated :
        LET cpu       == cycles[k].reading.cpuUsage
            cpuEvents == SelectSeq(cycles[k].events, IsCpuEvent)
        IN  /\ (cpu > 90000 /\ cpu <= 100000) =>
                   cpuEvents = <<[type |-> "cpu_high", severity |-> "critical",
                                  value |-> cpu]>>
            /\ (cpu > 75000 /\ cpu <= 90000) =>
                   cpuEvents = <<[type |-> "cpu_high", severity |-> "warning",
                                  value |-> cpu]>>
            /\ cpu <= 75000 => cpuEvents = <<>>

\* A reading exactly on the critical threshold has been evaluated to one
\* warning
C6_Witness ==
    \E k \in Evaluated :
        /\ cycles[k].reading.cpuUsage = 90000
        /\ cycles[k].events[1].severity = "warning"
        /\ cycles[k].pc = "done"

\* The events the memory, disk and error-rate rules of the specification
\* give for a reading, in the order memory, disk, error rate
OtherEvents(m) ==
    (IF m.memoryUsage > 95000
     THEN <<[type |-> "memory_high", severity |-> "critical", value |-> m.memoryUsage]>>
     ELSE IF m.memoryUsage > 85000
          THEN <<[type |-> "memory_high", severity |-> "warning", value |-> m.memoryUsage]>>
          ELSE <<>>)
    \o (IF m.diskUsage > 95000
        THEN <<[type |-> "disk_full", severity |-> "critical", value |-> m.diskUsage]>>
        ELSE <<>>)
    \o (IF m.errorRate > 2000
        THEN <<[type |-> "error_rate_high", severity |-> "warning", value |-> m.errorRate]>>
        ELSE <<>>)

EventRank(type) ==
    CASE type = "cpu_high" -> 1
      [] type = "memory_high" -> 2
      [] type = "disk_full" -> 3
      [] type = "error_rate_high" -> 4

IsOtherEvent(e) == ~IsCpuEvent(e)

\* C7: the memory, disk and error-rate rules are evaluated independently of
\* the CPU rule and of each other, with memory_high critical above 95 and
\* warning in (85, 95], disk_full critical above 95 and error_rate_high
\* warning above 0.02; the events come at most one per metric type in the
\* order cpu, memory, disk, error rate; and each event is handed to
\* createAlert exactly once, in that order: the calls made so far are for
\* the first j - 1 events, and every call that did not fail left one record.
C7_OtherRulesAndOrder ==
    \A k \in Evaluated :
        LET c == cycles[k]
        IN  /\ SelectSeq(c.events, IsOtherEvent) = OtherEvents(c.reading)
            /\ \A a, b \in 1..Len(c.events) :
                   a < b => EventRank(c.events[a].type) < EventRank(c.events[b].type)
            /\ c.j \in 1..(Len(c.events) + 1)
            /\ c.pc = "done" => c.j = Len(c.events) + 1
            /\ c.direct =>
                   /\ Len(alerts) <= c.j - 1
                   /\ c.j - 1 <= Len(alerts) + nFailures
                   /\ nFailures = 0 =>
                          [n \in 1..Len(alerts) |-> alerts[n].title]
                              = [n \in 1..(c.j - 1) |-> c.events[n].type]

\* A reading above every threshold has given four events, and each has
\* been handed to createAlert
C7_Witness ==
    \E k \in Evaluated :
        /\ cycles[k].pc = "done"
        /\ Len(cycles[k].events) = 4
        /\ Len(alerts) = 4

----------------------------------------------------------------------------
(* Properties of the collection cycle and of the alert store *)

\* The VMs a frame has enumerated
Enumerated(c) == {c.vms[n].id : n \in 1..Len(c.vms)}

\* C8: a cycle samples exactly the VMs whose status, when the cycle
\* enumerates the fleet, is running, starting or stopping: the enumeration
\* returns those VMs and no other, every MetricPoint carries a status of
\* that set, and a MetricPoint or an alert is only ever written for the VM
\* the cycle is at.
C8_OnlyActiveSampled ==
    /\ [](\A n \in 1..Len(metrics) :
              metrics[n].status \in {"running", "starting", "stopping"})
    /\ [][\A k \in 1..Len(cycles) :
              (Len(cycles') = Len(cycles) /\ cycles[k].pc = "find"
                                          /\ cycles'[k].enumerated)
                  => Enumerated(cycles'[k])
                         = {v \in VmIds : vms[v] \in {"running", "starting", "stopping"}}]_vars
    /\ [][Len(metrics') > Len(metrics) =>
              \E k \in 1..Len(cycles) :
                  /\ cycles[k].pc = "sample"
                  /\ metrics'[Len(metrics')].vmId = cycles[k].vms[cycles[k].i].id
                  /\ metrics'[Len(metrics')].status = cycles[k].vms[cycles[k].i].status]_vars
    /\ [][Len(alerts') > Len(alerts) =>
              \E k \in 1..Len(cycles) :
                  /\ cycles[k].pc = "alertSave"
                  /\ alerts'[Len(alerts')].vmId = cycles[k].vms[cycles[k].i].id]_vars

\* A cycle has finished over a fleet with a VM outside the set, and has
\* written a MetricPoint, none of them for that VM
C8_Witness ==
    \E k \in 1..Len(cycles), v \in VmIds :
        /\ cycles[k].pc = "done" /\ cycles[k].enumerated
        /\ metrics # <<>>
        /\ vms[v] \in {"creating", "stopped"}
        /\ \A n \in 1..Len(metrics) : metrics[n].vmId # v
        /\ \A n \in 1..Len(alerts) : alerts[n].vmId # v

\* C9: a failure while one VM is sampled stays with that VM: a cycle that
\* has enumerated the fleet ends only after it has gone through every
\* enumerated VM and has run the system aggregation.
C9_FailureIsolated ==
    \A k \in 1..Len(cycles) :
        (cycles[k].pc = "done" /\ cycles[k].enumerated)
            => /\ cycles[k].i = Len(cycles[k].vms) + 1
               /\ cycles[k].aggregated

\* A cycle over two VMs has finished: the MetricPoint of the first was not
\* written, the one of the second is there, and so is the system aggregate
C9_Witness ==
    \E k \in 1..Len(cycles) :
        /\ cycles[k].pc = "done"
        /\ Len(cycles[k].vms) = 2
        /\ nFailures = 1
        /\ \A n \in 1..Len(metrics) : metrics[n].vmId # cycles[k].vms[1].id
        /\ \E n \in 1..Len(metrics) : metrics[n].vmId = cycles[k].vms[2].id
        /\ perf # <<>>

\* C10: a resolved alert stays resolved: no step of any request or cycle,
\* in any interleaving, takes a record from resolved = true back to false,
\* and no record disappears.
C10_ResolvedPermanent ==
    [][/\ Len(alerts') >= Len(alerts)
       /\ \A a \in 1..Len(alerts) : alerts[a].resolved => alerts'[a].resolved]_vars

\* A record has been resolved, and a later evaluation of the same VM and
\* alert type has gone through createAlert without reopening it
C10_Witness ==
    \E a, b \in 1..Len(alerts) :
        /\ a < b
        /\ SamePair(alerts[a], alerts[b])
        /\ alerts[a].resolved /\ alerts[a].resolvedAt < alerts[b].createdAt
        /\ ~alerts[b].resolved

----------------------------------------------------------------------------
(* Properties of the requests *)

\* C11: a resolveAlert request whose identifier matches no record is
\* answered with not-found (404), unless the database call itself failed;
\* it writes no record and emits no notification.
C11_UnknownIdNotFound ==
    (reply.op = "resolveAlert" /\ reply.id \notin 1..Len(alerts)
                               /\ reply.error # "MongoError")
        => reply.status = "404" /\ reply.alert = 0

\* C12: a resolveAlert request that has set resolved on a record is
\* answered with success, and has emitted the alert-resolved notification:
\* no record is left resolved with the caller told that the request failed.
C12_ResolvedReportsSuccess ==
    (reply.op = "resolveAlert" /\ reply.alert # 0)
        => /\ reply.status = "200"
           /\ emitted >= 1

\* C13: getVMMetrics, getSystemMetrics and getPerformanceSummary reject a
\* time-range keyword outside {1h, 24h, 7d, 30d} as a validation error:
\* they neither return a result for another range nor fail with an internal
\* error.
C13_UnknownRangeRejected ==
    (reply.op \in {"getVMMetrics", "getSystemMetrics", "getPerformanceSummary"}
         /\ reply.range \notin {"1h", "24h", "7d", "30d"})
        => reply.status = "thrown" /\ reply.error = "ValidationError"

\* C14: with no MetricPoint in the store (so none in any range),
\* getSystemMetrics and getPerformanceSummary called with a valid range
\* return, when the database answers, a summary that has dataPoints = 0
\* and in which every field is zero.
C14_ZeroedSummary ==
    (reply.op \in {"getSystemMetrics", "getPerformanceSummary"}
         /\ reply.range \in {"1h", "24h", "7d", "30d"}
         /\ reply.error = "none"
         /\ metrics = <<>>)
        => /\ reply.status = "returned"
           /\ "dataPoints" \in DOMAIN reply.summary
           /\ \A f \in DOMAIN reply.summary : reply.summary[f] = 0

\* The records stored for a (VM, alert type) pair
PairRecords(vmId, type) ==
    {n \in 1..Len(alerts) : alerts[n].vmId = vmId /\ alerts[n].title = type}

\* C15: a createAlert that saves more than five minutes after the last
\* event of its (VM, alert type) pair creates a new record for the pair with
\* count 1, whether the earlier records are resolved or not, and leaves
\* every earlier record as it was.
C15_NewRecordAfterWindow ==
    [][\A k \in 1..Len(cycles) :
           LET c    == cycles[k]
               ev   == c.events[c.j]
               vmId == c.vms[c.i].id
               prev == PairRecords(vmId, ev.type)
               new  == alerts'[Len(alerts')]
           IN  (/\ c.pc = "alertSave"
                /\ Len(cycles') = Len(cycles) /\ cycles'[k] # c
                /\ nFailures' = nFailures
                /\ prev # {}
                /\ \A n \in prev : alerts[n].lastSeen + WindowMs < now)
               => /\ Len(alerts') = Len(alerts) + 1
                  /\ new.vmId = vmId /\ new.title = ev.type
                  /\ new.count = 1 /\ new.resolved = FALSE
                  /\ \A n \in 1..Len(alerts) : alerts'[n] = alerts[n]]_vars

\* Two records of one pair whose events are more than five minutes apart,
\* each with count 1, the earlier one unresolved
C15_Witness ==
    \E a, b \in 1..Len(alerts) :
        /\ a < b
        /\ SamePair(alerts[a], alerts[b])
        /\ alerts[b].createdAt - alerts[a].lastSeen > WindowMs
        /\ alerts[a].count = 1 /\ alerts[b].count = 1
        /\ ~alerts[a].resolved

----------------------------------------------------------------------------
(* Properties of the readings and of the references to VMs *)

\* The MetricPoints stored for a VM
PointsOf(v) == {n \in 1..Len(metrics) : metrics[n].vmId = v}

\* C16: after one collection cycle in which no database call failed, every
\* VM the cycle enumerated has exactly one MetricPoint, whatever reading
\* the generator produced; and if that reading had CPU above 90, the VM has
\* exactly one cpu_high record, at critical level, with count 1.
C16_OnePointPerCycle ==
    \A k \in 1..Len(cycles) :
        (cycles[k].pc = "done" /\ cycles[k].enumerated /\ nFailures = 0)
            => \A v \in Enumerated(cycles[k]) :
                   /\ Cardinality(PointsOf(v)) = 1
                   /\ \A n \in PointsOf(v) :
                          metrics[n].cpuUsage > 90000 =>
                              \E a \in 1..Len(alerts) :
                                  /\ PairRecords(v, "cpu_high") = {a}
                                  /\ alerts[a].level = "critical"
                                  /\ alerts[a].count = 1

\* C17: every reading the generator produces has its CPU, memory and disk
\* percentages in [0, 100] and its error rate in [0, 1].
C17_ReadingsClamped ==
    \A k \in 1..Len(cycles) :
        cycles[k].reading # NoReading =>
            /\ cycles[k].reading.cpuUsage \in 0..100000
            /\ cycles[k].reading.memoryUsage \in 0..100000
            /\ cycles[k].reading.diskUsage \in 0..100000
            /\ cycles[k].reading.errorRate \in 0..100000

\* C18: every MetricPoint and every alert record refers to a VM that
\* exists.
C18_ReferencesValid ==
    /\ \A n \in 1..Len(metrics) : vms[metrics[n].vmId] # "none"
    /\ \A n \in 1..Len(alerts) : vms[alerts[n].vmId] # "none"

----------------------------------------------------------------------------
(* Properties of the query operations *)

\* The set of the members of a sequence
Range(seq) == {seq[n] : n \in 1..Len(seq)}

\* C19: getActiveAlerts returns exactly the records with resolved = false,
\* of the given VM when a VM id is passed, each once, newest first by
\* creation time; a resolved record is in no result.
C19_ActiveAlertsListing ==
    [][(reply' # reply /\ reply'.op = "getActiveAlerts"
                        /\ reply'.status = "returned")
           => LET items == reply'.items
              IN  /\ Range(items) =
                         {a \in 1..Len(alerts) :
                              /\ ~alerts[a].resolved
                              /\ reply'.id # 0 => alerts[a].vmId = reply'.id}
                  /\ Cardinality(Range(items)) = Len(items)
                  /\ \A m, n \in 1..Len(items) :
                         m < n => alerts[items[m]].createdAt
                                      >= alerts[items[n]].createdAt]_vars

\* A listing over all VMs of two records, the newer one first
C19_Witness ==
    /\ reply.op = "getActiveAlerts" /\ reply.status = "returned"
    /\ reply.id = 0
    /\ Len(reply.items) = 2
    /\ alerts[reply.items[1]].createdAt > alerts[reply.items[2]].createdAt
    /\ reply.items[1] > reply.items[2]

\* C20: the four query operations (active-alerts listing, per-VM history,
\* system overview, dashboard bundle) are read-only: serving one of them
\* changes neither the VMs nor the MetricPoints, the alert records or the
\* PerformanceMetrics documents.
C20_QueriesReadOnly ==
    [][(reply' # reply /\ reply'.op \in {"getActiveAlerts", "getVMMetrics",
                                         "getSystemOverview", "getDashboardData"})
           => UNCHANGED <<vms, metrics, alerts, perf>>]_vars

----------------------------------------------------------------------------
(* Properties of the overview counts, of shutdown and of failure handling *)

\* The unresolved records the Deduplicator created at a severity
RaisedAt(s) ==
    {a \in 1..Len(alerts) : ~alerts[a].resolved /\ alerts[a].level = s}

\* C21: in the answer of the system overview and in the overview of the
\* dashboard bundle, criticalAlerts is the number of unresolved records
\* raised at severity critical and warningAlerts the number raised at
\* severity warning.
C21_CountsBySeverity ==
    [][(reply' # reply /\ reply'.status = "200"
                       /\ reply'.op \in {"getSystemOverview", "getDashboardData"})
          => LET counts == IF reply'.op = "getSystemOverview"
                           THEN reply'.summary ELSE reply'.overview
             IN  /\ counts.criticalAlerts = Cardinality(RaisedAt("critical"))
                 /\ counts.warningAlerts = Cardinality(RaisedAt("warning"))]_vars

\* C22: once monitoring has been stopped, by stopMonitoring or by the
\* shutdown sequence, a collection cycle in flight is left to finish: it is
\* not ended before it is done, and unless the database itself fails each
\* step it still has to take succeeds (the enumeration, the save of a valid
\* MetricPoint, the lookup and the save of each alert, the aggregation).
C22_InFlightCycleFinishes ==
    [][~isRunning =>
           /\ Len(cycles') < Len(cycles) =>
                  \E k \in 1..Len(cycles) :
                      cycles[k].pc = "done" /\ cycles' = RemoveAt(cycles, k)
           /\ \A k \in 1..Len(cycles) :
                  (/\ Len(cycles') = Len(cycles) /\ cycles'[k] # cycles[k]
                   /\ nFailures' = nFailures)
                      => LET c == cycles[k]
                             d == cycles'[k]
                         IN  /\ c.pc = "find" => d.enumerated
                             /\ (c.pc = "sample" /\ ValidMetrics(d.reading))
                                    => Len(metrics') = Len(metrics) + 1
                             /\ c.pc = "lookup" => d.pc = "alertSave"
                             /\ c.pc = "alertSave" => alerts' # alerts
                             /\ c.pc = "system" => Len(perf') = Len(perf) + 1]_vars

\* C23: a failure of the system-wide aggregation inside a scheduled cycle
\* is contained: the error is caught by collectMetrics and never reaches
\* the timer callback, the step removes no MetricPoint and no alert record,
\* the scheduler stays running with its timer live, and the invocation ends
\* so that the next cycle can start.
C23_AggregationFailureContained ==
    [][\A k \in 1..Len(cycles) :
           (/\ cycles[k].pc = "system" /\ Len(cycles') = Len(cycles)
            /\ cycles'[k] # cycles[k] /\ perf' = perf)
               => /\ cycles'[k].pc = "done"
                  /\ cycles'[k].error = "caught"
                  /\ metrics' = metrics /\ alerts' = alerts
                  /\ isRunning' = isRunning /\ isRunning
                  /\ timers' = timers
                  /\ \E t \in timers : t.id = metricsInterval]_vars

\* The aggregation of a cycle failed after its MetricPoint was written; the
\* point is still there and the next cycle has started
C23_Witness ==
    /\ nFailures = 1 /\ perf = <<>> /\ metrics # <<>>
    /\ isRunning
    /\ Len(cycles) = 1 /\ cycles[1].pc = "sample" /\ cycles[1].error = "none"

\* C24: when the lookup or the save of createAlert fails for a candidate
\* alert, the error stays in createAlert: no alert record is created or
\* changed for the candidate, and the cycle goes on with the next candidate
\* of the reading, or else with the next VM, or else with the aggregation.
C24_CandidateDropped ==
    [][\A k \in 1..Len(cycles) :
           LET c == cycles[k]
               d == cycles'[k]
           IN  (/\ c.pc \in {"lookup", "alertSave"}
                /\ Len(cycles') = Len(cycles) /\ d # c
                /\ nFailures' = nFailures + 1)
                   => /\ alerts' = alerts
                      /\ d.error = "none"
                      /\ d.vms = c.vms
                      /\ IF c.j < Len(c.events)
                         THEN d.pc = "lookup" /\ d.j = c.j + 1 /\ d.i = c.i
                                             /\ d.events = c.events
                         ELSE IF c.direct THEN d.pc = "done"
                         ELSE IF c.i < Len(c.vms)
                              THEN d.pc = "sample" /\ d.i = c.i + 1
                              ELSE d.pc = "system" /\ d.i = c.i + 1]_vars

\* A cycle over two VMs has ended after createAlert failed for the first
\* candidate of VM 1: that candidate left no record, the second candidate
\* of VM 1 and both candidates of VM 2 have theirs
C24_Witness ==
    \E k \in 1..Len(cycles) :
        /\ cycles[k].pc = "done" /\ cycles[k].aggregated
        /\ nFailures = 1
        /\ Len(metrics) = 2 /\ perf # <<>>
        /\ PairRecords(1, "cpu_high") = {}
        /\ PairRecords(1, "error_rate_high") # {}
        /\ PairRecords(2, "cpu_high") # {}
        /\ PairRecords(2, "error_rate_high") # {}

\* The durations of the specification, in seconds
RangeSeconds(range) ==
    CASE range = "1h"  -> 3600
      [] range = "24h" -> 86400
      [] range = "7d"  -> 604800
      [] range = "30d" -> 2592000

\* C25: for a valid range, getVMMetrics(id, range) returns exactly the
\* MetricPoints of VM id whose timestamp is at or after now minus the
\* duration of the range, each once, oldest first, and no point of another
\* VM.
C25_HistoryInRange ==
    [][(reply' # reply /\ reply'.op = "getVMMetrics"
                       /\ reply'.range \in {"1h", "24h", "7d", "30d"}
                       /\ reply'.status = "returned")
          => LET items == reply'.items
             IN  /\ Range(items) =
                        {n \in 1..Len(metrics) :
                             /\ metrics[n].vmId = reply'.id
                             /\ metrics[n].timestamp \div 1000
                                    >= now \div 1000 - RangeSeconds(reply'.range)}
                 /\ Cardinality(Range(items)) = Len(items)
                 /\ \A m, n \in 1..Len(items) :
                        m < n => metrics[items[m]].timestamp
                                     <= metrics[items[n]].timestamp]_vars

\* A one-hour history of a VM with three points, two hours, one hour and no
\* time old: the oldest is left out, the one exactly an hour old comes
\* first, and a point of the other VM is in the store
C25_Witness ==
    /\ reply.op = "getVMMetrics" /\ reply.status = "returned"
    /\ reply.range = "1h"
    /\ Len(reply.items) = 2
    /\ metrics[reply.items[1]].timestamp = now - HourMs
    /\ metrics[reply.items[2]].timestamp = now
    /\ \E n \in 1..Len(metrics) :
           metrics[n].vmId = reply.id /\ metrics[n].timestamp < now - HourMs
    /\ \E n \in 1..Len(metrics) : metrics[n].vmId # reply.id

\* C28: between scheduler operations, after any sequence of startMonitoring
\* and stopMonitoring calls, isRunning is true exactly when the timer handle
\* metricsInterval is non-null, and at most one timer is live.
C28_RunningIffHandle ==
    /\ isRunning <=> metricsInterval # 0
    /\ Cardinality(timers) <= 1

\* The service runs on one timer, set at the first clock tick (as a start
\* after a stop sets it), and no cycle has run yet
C28_Witness ==
    /\ isRunning /\ ~warned
    /\ now = TickMs
    /\ timers = {[id |-> metricsInterval, due |-> now + PeriodMs]}
    /\ cycles = <<>> /\ perf = <<>> /\ nFailures = 0

\* C30: every alert record a collection cycle creates or updates is backed
\* by a MetricPoint saved for the same VM in the same cycle: when createAlert
\* writes, the cycle has a MetricPoint of the VM it is at.
C30_AlertBackedByPoint ==
    [][\A k \in 1..Len(cycles) :
           (/\ cycles[k].pc = "alertSave" /\ ~cycles[k].direct
            /\ Len(cycles') = Len(cycles) /\ cycles'[k] # cycles[k]
            /\ alerts' # alerts)
               => PointsOf(cycles[k].vms[cycles[k].i].id) # {}]_vars

----------------------------------------------------------------------------
(* Properties of the VM lifecycle requests *)

\* C26: the delete request removes only stopped VMs: in every interleaving
\* with start and stop requests and their timeouts, the status of a VM at
\* the moment its record is removed is stopped.
C26_DeleteOnlyStopped ==
    [][\A v \in VmIds :
           (vms[v] # "none" /\ vms'[v] = "none") => vms[v] = "stopped"]_vars

\* C27: when the delete request answers with success ('VM deleted
\* successfully'), the VM is no longer in the store.
C27_SuccessMeansDeleted ==
    [][(reply' # reply /\ reply'.op = "deleteVM" /\ reply'.status = "200")
           => vms'[reply'.id] = "none"]_vars

\* The status a lifecycle request leads to
TerminalStatus(op) == IF op = "stopVM" THEN "stopped" ELSE "running"

\* C29: the status of a VM follows its most recent lifecycle request: when
\* the last request served was an accepted create, start or stop of a VM
\* and every timeout has fired (no delete being in progress), the status of
\* the VM is stopped after a stop and running after a create or a start.
C29_StatusFollowsLastRequest ==
    (/\ reply.op \in {"createVM", "startVM", "stopVM"}
     /\ reply.status \in {"200", "201"}
     /\ vmTimers = {} /\ deletes = {}
     /\ vms[reply.id] # "none")
        => vms[reply.id] = TerminalStatus(reply.op)

====
